---- MODULE Spec2Model ----
(***************************************************************************)
(* A model of the agentic honeypot (app/main.py and app/services):         *)
(* the rule-based scam scorer, the regex intelligence extractor, the       *)
(* in-memory session store, the POST /honeypot handler run by concurrent   *)
(* worker threads, and the background callback dispatch with its retries.  *)
(*                                                                         *)
(* Texts are TLA+ strings; the scorer and the extractor are computed on    *)
(* their characters the way the Python code and its regular expressions    *)
(* compute them.                                                           *)
(***************************************************************************)
EXTENDS Integers, Sequences, FiniteSets, TLC

(***************************************************************************)
(* Characters and strings (Python str, re character classes).              *)
(***************************************************************************)
Digits == {"0", "1", "2", "3", "4", "5", "6", "7", "8", "9"}

LowerLetters ==
    {"a", "b", "c", "d", "e", "f", "g", "h", "i", "j", "k", "l", "m",
     "n", "o", "p", "q", "r", "s", "t", "u", "v", "w", "x", "y", "z"}

ToLower ==
    "A" :> "a" @@ "B" :> "b" @@ "C" :> "c" @@ "D" :> "d" @@ "E" :> "e" @@
    "F" :> "f" @@ "G" :> "g" @@ "H" :> "h" @@ "I" :> "i" @@ "J" :> "j" @@
    "K" :> "k" @@ "L" :> "l" @@ "M" :> "m" @@ "N" :> "n" @@ "O" :> "o" @@
    "P" :> "p" @@ "Q" :> "q" @@ "R" :> "r" @@ "S" :> "s" @@ "T" :> "t" @@
    "U" :> "u" @@ "V" :> "v" @@ "W" :> "w" @@ "X" :> "x" @@ "Y" :> "y" @@
    "Z" :> "z"

ToUpper ==
    "a" :> "A" @@ "b" :> "B" @@ "c" :> "C" @@ "d" :> "D" @@ "e" :> "E" @@
    "f" :> "F" @@ "g" :> "G" @@ "h" :> "H" @@ "i" :> "I" @@ "j" :> "J" @@
    "k" :> "K" @@ "l" :> "L" @@ "m" :> "M" @@ "n" :> "N" @@ "o" :> "O" @@
    "p" :> "P" @@ "q" :> "Q" @@ "r" :> "R" @@ "s" :> "S" @@ "t" :> "T" @@
    "u" :> "U" @@ "v" :> "V" @@ "w" :> "W" @@ "x" :> "X" @@ "y" :> "Y" @@
    "z" :> "Z"

UpperLetters == DOMAIN ToLower

\* \s of the regular expressions
Whitespace == {" ", "\n", "\t", "\r"}

\* the i-th character of t, "" outside the string
Ch(t, i) == IF i >= 1 /\ i <= Len(t) THEN SubSeq(t, i, i) ELSE ""

LowerCh(c) == IF c \in UpperLetters THEN ToLower[c] ELSE c

UpperCh(c) == IF c \in LowerLetters THEN ToUpper[c] ELSE c

RECURSIVE LowerFrom(_, _)
LowerFrom(t, i) ==
    IF i > Len(t) THEN "" ELSE LowerCh(Ch(t, i)) \o LowerFrom(t, i + 1)

\* str.lower()
Lower(t) == LowerFrom(t, 1)

RECURSIVE UpperFrom(_, _)
UpperFrom(t, i) ==
    IF i > Len(t) THEN "" ELSE UpperCh(Ch(t, i)) \o UpperFrom(t, i + 1)

\* str.upper()
Upper(t) == UpperFrom(t, 1)

\* Python's  p in t  for strings
Contains(t, p) ==
    \E i \in 1..(Len(t) - Len(p) + 1) : SubSeq(t, i, i + Len(p) - 1) = p

\* t has p at position i
HasAt(t, i, p) ==
    i >= 1 /\ i + Len(p) - 1 <= Len(t) /\ SubSeq(t, i, i + Len(p) - 1) = p

\* t has p (in lower case) at position i, whatever the case of t's letters
HasAtNoCase(t, i, p) ==
    i >= 1 /\ i + Len(p) - 1 <= Len(t) /\ Lower(SubSeq(t, i, i + Len(p) - 1)) = p

\* \w of the regular expressions
IsWordCh(c) == c \in Digits \/ c \in LowerLetters \/ c \in UpperLetters \/ c = "_"

\* \b between the characters i-1 and i of t
Boundary(t, i) == IsWordCh(Ch(t, i - 1)) # IsWordCh(Ch(t, i))

\* the length of the longest run of characters of class cls starting at i
RECURSIVE RunLen(_, _, _)
RunLen(t, i, cls) ==
    IF i <= Len(t) /\ Ch(t, i) \in cls THEN 1 + RunLen(t, i + 1, cls) ELSE 0

\* the length of the run of non-whitespace characters starting at i  (\S+)
RECURSIVE NonSpaceLen(_, _)
NonSpaceLen(t, i) ==
    IF i <= Len(t) /\ Ch(t, i) \notin Whitespace
    THEN 1 + NonSpaceLen(t, i + 1) ELSE 0

SeqToSet(s) == {s[i] : i \in DOMAIN s}

Min(a, b) == IF a < b THEN a ELSE b

Max(a, b) == IF a > b THEN a ELSE b

(***************************************************************************)
(* app/services/scam_detector.py                                           *)
(***************************************************************************)
KEYWORD_SIGNALS == <<
    [name |-> "account_blocked", points |-> 25,
     phrases |-> <<"account blocked", "blocked today", "suspended", "freeze">>],
    [name |-> "urgent_pressure", points |-> 15,
     phrases |-> <<"urgent", "immediately", "within", "today", "now">>],
    [name |-> "verify_kyc", points |-> 15,
     phrases |-> <<"verify", "verification", "kyc", "update kyc">>],
    [name |-> "otp_pin", points |-> 30,
     phrases |-> <<"otp", "pin", "password", "cvv">>],
    [name |-> "upi_request", points |-> 25,
     phrases |-> <<"upi", "upi id", "collect request", "pay", "payment">>],
    [name |-> "bank_impersonation", points |-> 15,
     phrases |-> <<"bank", "customer care", "support", "rb i", "sbi", "hdfc",
                   "icici", "axis">>],
    [name |-> "reward_offer", points |-> 15,
     phrases |-> <<"prize", "lottery", "cashback", "free offer", "gift">>] >>

LinkPoints == 25

PhonePoints == 10

\* URL_RE = (https?://\S+)|(\bbit\.ly/\S+|\btinyurl\.com/\S+), IGNORECASE:
\* the length of the match that starts at i, 0 when there is none
UrlMatchLen(t, i) ==
    LET pre == IF HasAtNoCase(t, i, "https://") THEN 8
               ELSE IF HasAtNoCase(t, i, "http://") THEN 7
               ELSE IF Boundary(t, i) /\ HasAtNoCase(t, i, "bit.ly/") THEN 7
               ELSE IF Boundary(t, i) /\ HasAtNoCase(t, i, "tinyurl.com/") THEN 12
               ELSE 0
        rest == NonSpaceLen(t, i + pre)
    IN IF pre > 0 /\ rest > 0 THEN pre + rest ELSE 0

\* [6-9]\d{9}\b at i
TenDigitAt(t, i) ==
    /\ Ch(t, i) \in {"6", "7", "8", "9"}
    /\ \A k \in 1..9 : Ch(t, i + k) \in Digits
    /\ Boundary(t, i + 10)

\* PHONE_RE = \b(?:\+?91[\s\-]?)?[6-9]\d{9}\b: the length of the match that
\* starts at i, 0 when there is none.  The alternatives are tried in the
\* order of the backtracking matcher: the optional parts taken first.
PhoneMatchLen(t, i) ==
    LET Try(plus, sep) ==
            /\ (plus = 1 => Ch(t, i) = "+")
            /\ HasAt(t, i + plus, "91")
            /\ (sep = 1 => Ch(t, i + plus + 2) \in (Whitespace \cup {"-"}))
            /\ TenDigitAt(t, i + plus + 2 + sep)
    IN IF ~Boundary(t, i) THEN 0
       ELSE IF Try(1, 1) THEN 14
       ELSE IF Try(1, 0) THEN 13
       ELSE IF Try(0, 1) THEN 13
       ELSE IF Try(0, 0) THEN 12
       ELSE IF TenDigitAt(t, i) THEN 10
       ELSE 0

\* the signals of the phrase table from the i-th on, in the table's order:
\* a signal is matched when any of its phrases occurs in t
RECURSIVE KeywordMatches(_, _)
KeywordMatches(t, i) ==
    IF i > Len(KEYWORD_SIGNALS) THEN <<>>
    ELSE LET sig == KEYWORD_SIGNALS[i]
             hit == \E k \in DOMAIN sig.phrases : Contains(t, sig.phrases[k])
         IN (IF hit THEN <<sig>> ELSE <<>>) \o KeywordMatches(t, i + 1)

\* the raw (unclamped) score of the matched signals: the loop's  score += points
RECURSIVE PointsOf(_)
PointsOf(sigs) ==
    IF sigs = <<>> THEN 0 ELSE Head(sigs).points + PointsOf(Tail(sigs))

\* a faulty form of Clamp: the score is not clamped
NotClamped(score) == score

\* score = max(0, min(score, 100))
Clamp(score) == Max(0, Min(score, 100))

\* score_message(text) -> (score, matched)
ScoreMessage(text) ==
    LET t == Lower(text)
        kw == KeywordMatches(t, 1)
        link == \E i \in 1..Len(t) : UrlMatchLen(t, i) > 0
        phone == \E i \in 1..Len(t) : PhoneMatchLen(t, i) > 0
        raw == PointsOf(kw) + (IF link THEN LinkPoints ELSE 0)
                            + (IF phone THEN PhonePoints ELSE 0)
    IN [score |-> Clamp(raw),
        matched |-> [k \in DOMAIN kw |-> kw[k].name]
                    \o (IF link THEN <<"contains_link">> ELSE <<>>)
                    \o (IF phone THEN <<"contains_phone">> ELSE <<>>)]

Threshold == 60

\* detect_scam(text, threshold) -> (scam_now, score, matched)
DetectScam(text, threshold) ==
    LET r == ScoreMessage(text)
    IN [scam_now |-> r.score >= threshold, score |-> r.score, matched |-> r.matched]

(***************************************************************************)
(* app/services/extractor.py                                               *)
(***************************************************************************)
AlnumChars == Digits \cup LowerLetters \cup UpperLetters

\* [a-z0-9.\-_] under IGNORECASE
HandleChars == AlnumChars \cup {".", "-", "_"}

\* UPI_RE = \b[a-z0-9.\-_]{2,}@[a-z0-9]{2,}\b, IGNORECASE.  "@" is in neither
\* class and \b cannot hold inside a run of letters and digits, so only the
\* longest runs on both sides of the "@" can match.
UpiMatchLen(t, i) ==
    LET k == RunLen(t, i, HandleChars)
        m == RunLen(t, i + k + 1, AlnumChars)
    IN IF /\ Boundary(t, i)
          /\ k >= 2
          /\ Ch(t, i + k) = "@"
          /\ m >= 2
          /\ Boundary(t, i + k + 1 + m)
       THEN k + 1 + m ELSE 0

\* BANK_ACCT_RE = \b\d{9,18}\b: a whole run of 9 to 18 digits
BankMatchLen(t, i) ==
    LET n == RunLen(t, i, Digits)
    IN IF Boundary(t, i) /\ n >= 9 /\ n <= 18 /\ Boundary(t, i + n)
       THEN n ELSE 0

\* IFSC_RE = \b[A-Z]{4}0[A-Z0-9]{6}\b, IGNORECASE
IfscMatchLen(t, i) ==
    IF /\ Boundary(t, i)
       /\ \A k \in 0..3 : Ch(t, i + k) \in (LowerLetters \cup UpperLetters)
       /\ Ch(t, i + 4) = "0"
       /\ \A k \in 5..10 : Ch(t, i + k) \in AlnumChars
       /\ Boundary(t, i + 11)
    THEN 11 ELSE 0

\* the length of the match of the named pattern that starts at i
MatchLen(pat, t, i) ==
    CASE pat = "URL_RE" -> UrlMatchLen(t, i)
      [] pat = "PHONE_RE" -> PhoneMatchLen(t, i)
      [] pat = "UPI_RE" -> UpiMatchLen(t, i)
      [] pat = "BANK_ACCT_RE" -> BankMatchLen(t, i)
      [] pat = "IFSC_RE" -> IfscMatchLen(t, i)

\* re.finditer: the matches of the pattern in t, scanned left to right from
\* pos, not overlapping
RECURSIVE FindAll(_, _, _)
FindAll(pat, t, pos) ==
    IF pos > Len(t) THEN <<>>
    ELSE LET n == MatchLen(pat, t, pos)
         IN IF n > 0
            THEN <<SubSeq(t, pos, pos + n - 1)>> \o FindAll(pat, t, pos + n)
            ELSE FindAll(pat, t, pos + 1)

SUSPICIOUS_KEYWORDS == <<
    "urgent", "immediately", "verify", "verification", "kyc", "otp", "pin",
    "password", "cvv", "account blocked", "blocked", "suspend", "suspended",
    "freeze", "upi", "upi id", "collect request", "payment", "refund", "click",
    "link", "download", "apk", "customer care", "support", "helpline" >>

\* re.sub(r"\D", "", p)
RECURSIVE DigitsFrom(_, _)
DigitsFrom(p, i) ==
    IF i > Len(p) THEN ""
    ELSE (IF Ch(p, i) \in Digits THEN Ch(p, i) ELSE "") \o DigitsFrom(p, i + 1)

DigitsOnly(p) == DigitsFrom(p, 1)

\* str.strip(chars): without the leading and trailing characters of cls
RECURSIVE LStrip(_, _)
LStrip(u, cls) ==
    IF Len(u) > 0 /\ Ch(u, 1) \in cls THEN LStrip(SubSeq(u, 2, Len(u)), cls) ELSE u

RECURSIVE RStrip(_, _)
RStrip(u, cls) ==
    IF Len(u) > 0 /\ Ch(u, Len(u)) \in cls
    THEN RStrip(SubSeq(u, 1, Len(u) - 1), cls) ELSE u

Strip(u, cls) == RStrip(LStrip(u, cls), cls)

\* _normalize_phone(p)
NormalizePhone(p) ==
    LET digits == DigitsOnly(p)
    IN IF Len(digits) = 12 /\ HasAt(digits, 1, "91") THEN "+" \o digits
       ELSE IF Len(digits) = 10 THEN "+91" \o digits
       ELSE Strip(p, Whitespace)

UrlStripChars == {")", ".", ",", ";", "]", "}", ">", "\"", "'"}

\* _normalize_url(u)
NormalizeUrl(u) == Strip(Strip(u, Whitespace), UrlStripChars)

\* a faulty form of PhoneLike: only the digits of a phone match are dropped
PhoneLikeSeenOnly(digits, phones_raw_digits) == digits \in phones_raw_digits

\* the phone-like bank account matches are dropped
PhoneLike(digits, phones_raw_digits) ==
    \/ digits \in phones_raw_digits
    \/ Len(digits) = 10
    \/ (Len(digits) = 12 /\ HasAt(digits, 1, "91"))

\* extract_intelligence(text)
ExtractIntelligence(text) ==
    LET t == text
        found == FindAll("URL_RE", t, 1)
        urls == [k \in DOMAIN found |-> NormalizeUrl(found[k])]
        phones_found == FindAll("PHONE_RE", t, 1)
        phones == [k \in DOMAIN phones_found |-> NormalizePhone(phones_found[k])]
        upi_found == FindAll("UPI_RE", t, 1)
        upis == [k \in DOMAIN upi_found |-> Lower(upi_found[k])]
        ifscs == FindAll("IFSC_RE", t, 1)
        phones_raw_digits == {DigitsOnly(phones_found[k]) : k \in DOMAIN phones_found}
        NotPhone(num) == ~PhoneLike(DigitsOnly(num), phones_raw_digits)
        accts == SelectSeq(FindAll("BANK_ACCT_RE", t, 1), NotPhone)
        lower == Lower(t)
        InText(k) == Contains(lower, k)
        kws == SelectSeq(SUSPICIOUS_KEYWORDS, InText)
    IN [bankAccounts |-> accts,
        upiIds |-> upis,
        phishingLinks |-> urls,
        phoneNumbers |-> phones,
        suspiciousKeywords |->
            kws \o (IF ifscs # <<>> THEN <<"ifsc_shared">> ELSE <<>>)]

(***************************************************************************)
(* app/services/callback.py: build_agent_notes                             *)
(***************************************************************************)
\* ", ".join(items)
RECURSIVE JoinWith(_, _)
JoinWith(items, sep) ==
    IF items = <<>> THEN ""
    ELSE IF Len(items) = 1 THEN items[1]
    ELSE items[1] \o sep \o JoinWith(Tail(items), sep)

\* build_agent_notes(matched_signals, extracted)
BuildAgentNotes(matched_signals, extracted) ==
    LET parts ==
            (IF matched_signals # <<>>
             THEN <<"Signals: "
                    \o JoinWith(SubSeq(matched_signals, 1,
                                       Min(8, Len(matched_signals))), ", ")
                    \o ".">>
             ELSE <<>>)
            \o (IF extracted.upiIds # <<>> THEN <<"UPI requested/shared.">> ELSE <<>>)
            \o (IF extracted.phishingLinks # <<>> THEN <<"Link(s) shared.">> ELSE <<>>)
            \o (IF extracted.phoneNumbers # <<>> THEN <<"Phone number shared.">> ELSE <<>>)
            \o (IF extracted.bankAccounts # <<>>
                THEN <<"Bank account number shared.">> ELSE <<>>)
    IN IF parts = <<>>
       THEN "Scam behavior observed with urgency and verification prompts."
       ELSE JoinWith(parts, " ")

(***************************************************************************)
(* app/services/session_store.py                                           *)
(***************************************************************************)
IntelKeys ==
    <<"bankAccounts", "upiIds", "phishingLinks", "phoneNumbers", "suspiciousKeywords">>

EmptyIntel ==
    [bankAccounts |-> <<>>, upiIds |-> <<>>, phishingLinks |-> <<>>,
     phoneNumbers |-> <<>>, suspiciousKeywords |-> <<>>]

\* SessionState(session_id=...): the dataclass defaults.  created_at and
\* updated_at hold wall-clock times that nothing reads and are left out.
NewSession(session_id) ==
    [session_id |-> session_id,
     scam_detected |-> FALSE,
     risk_score |-> 0,
     matched_signals |-> <<>>,
     total_messages_exchanged |-> 0,
     conversation |-> <<>>,
     extracted_intelligence |-> EmptyIntel,
     agent_notes |-> "",
     status |-> "ACTIVE",
     callback_sent |-> FALSE,
     callback_attempts |-> 0]

\* merge_intelligence, one category run alone: the loop
\*   for item in items: if item and item not in existing: existing.append(item)
RECURSIVE MergeList(_, _)
MergeList(existing, items) ==
    IF items = <<>> THEN existing
    ELSE LET item == Head(items)
         IN MergeList(IF item # "" /\ item \notin SeqToSet(existing)
                      THEN Append(existing, item) ELSE existing,
                      Tail(items))

\* merge_intelligence(s, intel) run alone, on the session's bundle
MergeIntelligence(bundle, intel) ==
    [k \in SeqToSet(IntelKeys) |-> MergeList(bundle[k], intel[k])]

\* the items the loop of merge_intelligence finds missing from `existing`
NewItems(existing, items) ==
    SubSeq(MergeList(existing, items), Len(existing) + 1,
           Len(MergeList(existing, items)))

MinTurns == 2

\* a faulty form of ShouldFinalize: the engagement threshold is not tested
ShouldFinalizeAnyTurn(s) ==
    /\ ~s.callback_sent
    /\ s.scam_detected
    /\ \/ s.extracted_intelligence.upiIds # <<>>
       \/ s.extracted_intelligence.phishingLinks # <<>>
       \/ s.extracted_intelligence.phoneNumbers # <<>>
       \/ s.extracted_intelligence.bankAccounts # <<>>

\* should_finalize(s)
ShouldFinalize(s) ==
    IF s.callback_sent THEN FALSE
    ELSE IF ~s.scam_detected THEN FALSE
    ELSE LET has_high_value ==
                 \/ s.extracted_intelligence.upiIds # <<>>
                 \/ s.extracted_intelligence.phishingLinks # <<>>
                 \/ s.extracted_intelligence.phoneNumbers # <<>>
                 \/ s.extracted_intelligence.bankAccounts # <<>>
         IN has_high_value /\ s.total_messages_exchanged >= MinTurns

(***************************************************************************)
(* The requests the model sends: payloads of POST /honeypot after the      *)
(* handler's normalisation (app/main.py lines 121-138).                    *)
(***************************************************************************)
MaxRequests == 2

MaxHistory == 1

Requests == 1..MaxRequests

SessionIds == {"s1", "s2"}

\* a scam message with a UPI id, a scam message with keywords only, an
\* empty (score 0) message
MessageTexts == {"urgent otp pay to scam@upi", "urgent otp payment", ""}

HistoryMessage == [sender |-> "scammer", text |-> "call 9876543210"]

Histories == {[i \in 1..n |-> HistoryMessage] : n \in 0..MaxHistory}

\* "\n".join(the texts of the scammer's messages in history)
Combined(history) ==
    LET IsScammer(m) == m.sender = "scammer"
        scam == SelectSeq(history, IsScammer)
    IN JoinWith([i \in DOMAIN scam |-> scam[i].text], "\n")

\* The texts the scorer is run on alone: every choice among nine fragments,
\* one per signal of the scorer (the seven phrase categories, a link, a
\* phone number), joined by spaces, and texts with two phrases of one
\* category.
ScoreFragments ==
    <<"Account Blocked", "urgent", "verify", "OTP", "upi", "bank", "prize",
      "http://bit.ly/xyz", "9876543210">>

RECURSIVE TextOf(_, _)
TextOf(chosen, i) ==
    IF i > Len(ScoreFragments) THEN ""
    ELSE IF i \in chosen
         THEN ScoreFragments[i]
              \o (IF \E j \in chosen : j > i THEN " " ELSE "")
              \o TextOf(chosen, i + 1)
         ELSE TextOf(chosen, i + 1)

ScoreTexts ==
    {TextOf(chosen, 1) : chosen \in SUBSET (1..Len(ScoreFragments))}
    \cup {"otp pin cvv password", "pay upi payment now today",
          "Your account will be blocked today, verify KYC by clicking http://bit.ly/xyz and share OTP"}

\* The texts the extractor is run on alone: every pair of these fragments
\* (a phone number in four forms, digit strings of 10, 12 and 14 digits, a
\* UPI id, a link, an IFSC code, a scam message with a phone number),
\* joined by a space.
ExtractFragments ==
    {"", "9876543210", "+91 9876543210", "+91-9876543210", "919876543210",
     "1234567890", "912345678901", "123456789012", "50100234567891",
     "scam@upi", "http://bit.ly/xyz", "HDFC0001234", "otp upi 9876543210"}

ExtractTexts == {a \o " " \o b : a \in ExtractFragments, b \in ExtractFragments}

\* the scorer and the extractor on the texts of the concurrent requests,
\* computed once
Detected == [t \in MessageTexts |-> DetectScam(t, Threshold)]

HandlerTexts == MessageTexts \cup {Combined(h) : h \in Histories}

Extracted == [t \in HandlerTexts |-> ExtractIntelligence(t)]

\* detect_scam(text, threshold=60) as the handler calls it (main.py line 155)
Detect(text) ==
    IF text \in MessageTexts THEN Detected[text] ELSE DetectScam(text, Threshold)

\* extract_intelligence(text) as the handler calls it (main.py lines 162, 170)
Extract(text) ==
    IF text \in HandlerTexts THEN Extracted[text] ELSE ExtractIntelligence(text)

MaxRetries == 2

BoostLimit == 6

\* what one requests.post can end in: a 2xx response, another response, an
\* exception (connection error, timeout)
Outcomes == {"2xx", "non2xx", "exception"}

NoSession == 0

NoRequest == [sessionId |-> "", text |-> "", history |-> <<>>]

\* total_at_trigger and intel_at_trigger are history: the session's counter
\* and lists when the trigger of main.py line 173 was evaluated
NoFrame ==
    [loaded |-> 0, m |-> 0, to_add |-> EmptyIntel, agent_notes |-> "",
     total_arg |-> 0, attempt |-> 0, posts |-> 0, ok |-> "none",
     after_failure |-> FALSE,
     total_at_trigger |-> 0, intel_at_trigger |-> EmptyIntel]

(***************************************************************************)
(* State.                                                                  *)
(***************************************************************************)
VARIABLES
    heap,       \* the SessionState objects created so far, by object id
    registry,   \* InMemorySessionStore._store: sessionId -> object id
    pc,         \* where each request's thread (handler, then task) stands
    req,        \* each request's payload
    session,    \* each request's local `session`: an object id
    frame,      \* each request's other locals
    delivered,  \* the evaluator: the bodies it answered 2xx to, per sessionId
    failed      \* history: the objects a dispatch of which has ended in failure

vars == <<heap, registry, pc, req, session, frame, delivered, failed>>

Init ==
    /\ heap = <<>>
    /\ registry = [sid \in SessionIds |-> NoSession]
    /\ pc = [r \in Requests |-> "idle"]
    /\ req = [r \in Requests |-> NoRequest]
    /\ session = [r \in Requests |-> NoSession]
    /\ frame = [r \in Requests |-> NoFrame]
    /\ delivered = [sid \in SessionIds |-> <<>>]
    /\ failed = {}

\* main.py line 146: where the handler goes after get_or_create
AfterGetOrCreate(s, history) ==
    IF s.conversation = <<>> /\ history # <<>> THEN "ingest" ELSE "append"

(***************************************************************************)
(* The handler honeypot_endpoint, one action per step between two points   *)
(* where another thread can run.                                           *)
(***************************************************************************)
\* A request with a payload of the given sets arrives (the requests arrive
\* in the order of their numbers); get_or_create reads the registry
\* (session_store.py line 47).
ArriveWith(r, sids, texts, histories) ==
    /\ pc[r] = "idle"
    /\ IF r = 1 THEN TRUE ELSE pc[r - 1] # "idle"
    /\ \E sid \in sids, text \in texts, history \in histories :
         /\ req' = [req EXCEPT ![r] =
                        [sessionId |-> sid, text |-> text, history |-> history]]
         /\ IF registry[sid] # NoSession
            THEN /\ session' = [session EXCEPT ![r] = registry[sid]]
                 /\ pc' = [pc EXCEPT ![r] =
                               AfterGetOrCreate(heap[registry[sid]], history)]
            ELSE /\ pc' = [pc EXCEPT ![r] = "create"]
                 /\ UNCHANGED session
    /\ frame' = [frame EXCEPT ![r].m = 1]
    /\ UNCHANGED <<heap, registry, delivered, failed>>

\* The session ids are interchangeable: the first request is for "s1".
Arrive(r) ==
    ArriveWith(r, IF r = 1 THEN {"s1"} ELSE SessionIds, MessageTexts, Histories)

\* get_or_create found no session: it makes one and stores it (lines 48-51).
CreateSession(r) ==
    /\ pc[r] = "create"
    /\ heap' = Append(heap, NewSession(req[r].sessionId))
    /\ registry' = [registry EXCEPT ![req[r].sessionId] = Len(heap) + 1]
    /\ session' = [session EXCEPT ![r] = Len(heap) + 1]
    /\ pc' = [pc EXCEPT ![r] =
                  AfterGetOrCreate(NewSession(req[r].sessionId), req[r].history)]
    /\ UNCHANGED <<req, frame, delivered, failed>>

\* the message append_message_dict is called with
CurrentMessage(r) ==
    IF pc[r] = "ingest" THEN req[r].history[frame[r].m]
    ELSE [sender |-> "scammer", text |-> req[r].text]

\* append_message_dict: conversation.append(...) and the read of
\* total_messages_exchanged of the += (lines 106-107).
AppendMessage(r) ==
    /\ pc[r] \in {"ingest", "append"}
    /\ heap' = [heap EXCEPT ![session[r]].conversation =
                    Append(@, CurrentMessage(r))]
    /\ frame' = [frame EXCEPT ![r].loaded =
                     heap[session[r]].total_messages_exchanged]
    /\ pc' = [pc EXCEPT ![r] = IF pc[r] = "ingest" THEN "ingest_inc" ELSE "append_inc"]
    /\ UNCHANGED <<registry, req, session, delivered, failed>>

\* the write of the +=  (line 107)
StoreTotal(r) ==
    /\ pc[r] \in {"ingest_inc", "append_inc"}
    /\ heap' = [heap EXCEPT ![session[r]].total_messages_exchanged =
                    frame[r].loaded + 1]
    /\ IF pc[r] = "ingest_inc"
       THEN IF frame[r].m < Len(req[r].history)
            THEN /\ frame' = [frame EXCEPT ![r].m = @ + 1, ![r].loaded = 0]
                 /\ pc' = [pc EXCEPT ![r] = "ingest"]
            ELSE /\ frame' = [frame EXCEPT ![r].loaded = 0]
                 /\ pc' = [pc EXCEPT ![r] = "append"]
       ELSE /\ frame' = [frame EXCEPT ![r].loaded = 0]
            /\ pc' = [pc EXCEPT ![r] = "score"]
    /\ UNCHANGED <<registry, req, session, delivered, failed>>

\* detect_scam and session.risk_score = risk_score  (lines 155-156)
RecordScore(r) ==
    /\ pc[r] = "score"
    /\ heap' = [heap EXCEPT ![session[r]].risk_score = Detect(req[r].text).score]
    /\ pc' = [pc EXCEPT ![r] = "signals"]
    /\ UNCHANGED <<registry, req, session, frame, delivered, failed>>

\* a faulty form of ScamDetectedAfter: the flag is assigned the verdict
ScamDetectedOverwritten(scam_detected, scam_now) == scam_now

\* if scam_now: session.scam_detected = True  (lines 158-159)
ScamDetectedAfter(scam_detected, scam_now) ==
    IF scam_now THEN TRUE ELSE scam_detected

\* session.matched_signals = matched_signals; if scam_now: scam_detected = True
\* (lines 157-159)
RecordSignals(r) ==
    /\ pc[r] = "signals"
    /\ heap' = [heap EXCEPT
                    ![session[r]].matched_signals = Detect(req[r].text).matched,
                    ![session[r]].scam_detected =
                        ScamDetectedAfter(@, Detect(req[r].text).scam_now)]
    /\ pc' = [pc EXCEPT ![r] = "merge"]
    /\ UNCHANGED <<registry, req, session, frame, delivered, failed>>

\* the text whose intelligence is merged: the message's (line 162), then
\* the scammer's history (line 170)
MergedText(r) ==
    IF pc[r] \in {"merge", "merge_write"} THEN req[r].text
    ELSE Combined(req[r].history)

\* merge_intelligence: the tests  item not in existing  (line 71)
MergeRead(r) ==
    /\ pc[r] \in {"merge", "boost"}
    /\ frame' = [frame EXCEPT ![r].to_add =
                     [k \in SeqToSet(IntelKeys) |->
                         NewItems(heap[session[r]].extracted_intelligence[k],
                                  Extract(MergedText(r))[k])]]
    /\ pc' = [pc EXCEPT ![r] = IF pc[r] = "merge" THEN "merge_write" ELSE "boost_write"]
    /\ UNCHANGED <<heap, registry, req, session, delivered, failed>>

\* main.py lines 165-169: is the scammer's history extracted too
BoostApplies(s, history) ==
    /\ Len(s.conversation) <= BoostLimit
    /\ history # <<>>
    /\ Strip(Combined(history), Whitespace) # ""

\* a faulty form of Extended: the list is replaced by the new items
Replaced(existing, items) == items

\* existing.append(item) for each of the items  (session_store.py line 72)
Extended(existing, items) == existing \o items

\* a faulty form of MergeWrite: the lists are one object that all sessions
\* share (a class-level default), so the appends show in every session
MergeWriteShared(r) ==
    /\ pc[r] \in {"merge_write", "boost_write"}
    /\ heap' = [o \in DOMAIN heap |->
                    [heap[o] EXCEPT !.extracted_intelligence =
                        [k \in SeqToSet(IntelKeys) |->
                            Extended(@[k], frame[r].to_add[k])]]]
    /\ frame' = [frame EXCEPT ![r].to_add = EmptyIntel]
    /\ pc' = [pc EXCEPT ![r] =
                  IF pc[r] = "merge_write"
                     /\ BoostApplies(heap[session[r]], req[r].history)
                  THEN "boost" ELSE "finalize"]
    /\ UNCHANGED <<registry, req, session, delivered, failed>>

\* merge_intelligence: the appends  existing.append(item)  (line 72); after
\* the message's merge, the test of the early boost (lines 165-169)
MergeWrite(r) ==
    /\ pc[r] \in {"merge_write", "boost_write"}
    /\ heap' = [heap EXCEPT ![session[r]].extracted_intelligence =
                    [k \in SeqToSet(IntelKeys) |-> Extended(@[k], frame[r].to_add[k])]]
    /\ frame' = [frame EXCEPT ![r].to_add = EmptyIntel]
    /\ pc' = [pc EXCEPT ![r] =
                  IF pc[r] = "merge_write"
                     /\ BoostApplies(heap[session[r]], req[r].history)
                  THEN "boost" ELSE "finalize"]
    /\ UNCHANGED <<registry, req, session, delivered, failed>>

\* main.py lines 173-193: the trigger of the final callback, and the reply
Finalize(r) ==
    /\ pc[r] = "finalize"
    /\ LET s == heap[session[r]]
       IN IF ShouldFinalize(s) /\ ~s.callback_sent
          THEN /\ frame' = [frame EXCEPT
                                ![r].agent_notes =
                                    BuildAgentNotes(s.matched_signals,
                                                    s.extracted_intelligence),
                                ![r].after_failure = session[r] \in failed,
                                ![r].total_at_trigger = s.total_messages_exchanged,
                                ![r].intel_at_trigger = s.extracted_intelligence]
               /\ pc' = [pc EXCEPT ![r] = "task"]
               /\ UNCHANGED <<req, session>>
          ELSE /\ frame' = [frame EXCEPT ![r] = NoFrame]
               /\ pc' = [pc EXCEPT ![r] = "done"]
               /\ req' = [req EXCEPT ![r] = NoRequest]
               /\ session' = [session EXCEPT ![r] = NoSession]
    /\ UNCHANGED <<heap, registry, delivered, failed>>

(***************************************************************************)
(* The background task _send_callback and send_guvi_final_result.          *)
(***************************************************************************)
\* a faulty form of AfterAttempt: no try/except around requests.post
AfterAttemptUncaught(outcome, attempt, max_retries) ==
    IF outcome = "2xx" THEN "true"
    ELSE IF outcome = "exception" THEN "raise"
    ELSE IF attempt + 1 <= max_retries THEN "retry"
    ELSE "false"

\* the attempts of the loop  for attempt in range(1, max_retries + 1)
Attempts(max_retries) == 1..max_retries

\* what send_guvi_final_result does with the outcome of one attempt
\* (callback.py lines 55-77): it returns True ("true"), goes on to the next
\* attempt ("retry"), returns False after the loop ("false"); an exception
\* that left the function would be "raise"
AfterAttempt(outcome, attempt, max_retries) ==
    IF outcome = "2xx" THEN "true"
    ELSE IF attempt + 1 \in Attempts(max_retries) THEN "retry"
    ELSE "false"

\* the task starts: the arguments of send_guvi_final_result are evaluated
\* (main.py lines 180-188) and the loop starts (callback.py line 55)
StartSend(r) ==
    /\ pc[r] = "task"
    /\ frame' = [frame EXCEPT
                     ![r].total_arg = heap[session[r]].total_messages_exchanged,
                     ![r].attempt = 1,
                     ![r].ok = IF 1 \in Attempts(MaxRetries) THEN "none" ELSE "false"]
    /\ pc' = [pc EXCEPT ![r] = IF 1 \in Attempts(MaxRetries) THEN "post"
                                        ELSE "returned"]
    /\ UNCHANGED <<heap, registry, req, session, delivered, failed>>

\* the JSON body of a POST: the payload of callback.py lines 47-53, whose
\* extractedIntelligence is the session's own dict, serialised at the POST
Body(r) ==
    [sessionId |-> heap[session[r]].session_id,
     scamDetected |-> TRUE,
     totalMessagesExchanged |-> frame[r].total_arg,
     extractedIntelligence |-> heap[session[r]].extracted_intelligence,
     agentNotes |-> frame[r].agent_notes]

\* one attempt: requests.post and what follows it
Post(r) ==
    /\ pc[r] = "post"
    /\ \E outcome \in Outcomes :
         LET next == AfterAttempt(outcome, frame[r].attempt, MaxRetries)
         IN /\ delivered' =
                   IF outcome = "2xx"
                   THEN [delivered EXCEPT ![heap[session[r]].session_id] =
                             Append(@, Body(r))]
                   ELSE delivered
            /\ frame' = [frame EXCEPT
                             ![r].posts = @ + 1,
                             ![r].attempt = IF next = "retry" THEN @ + 1 ELSE @,
                             ![r].ok = IF next = "retry" THEN "none" ELSE next]
            /\ pc' = [pc EXCEPT ![r] =
                          CASE next = "retry" -> "post"
                            [] next = "raise" -> "raised"
                            [] OTHER -> "returned"]
    /\ UNCHANGED <<heap, registry, req, session, failed>>

\* send returned True: session.callback_sent = True  (main.py line 190)
MarkSent(r) ==
    /\ pc[r] = "returned"
    /\ frame[r].ok = "true"
    /\ heap' = [heap EXCEPT ![session[r]].callback_sent = TRUE]
    /\ pc' = [pc EXCEPT ![r] = "completing"]
    /\ UNCHANGED <<registry, req, session, frame, delivered, failed>>

\* session.status = "COMPLETED"  (main.py line 191)
MarkCompleted(r) ==
    /\ pc[r] = "completing"
    /\ heap' = [heap EXCEPT ![session[r]].status = "COMPLETED"]
    /\ frame' = [frame EXCEPT ![r] = NoFrame]
    /\ pc' = [pc EXCEPT ![r] = "done"]
    /\ req' = [req EXCEPT ![r] = NoRequest]
    /\ session' = [session EXCEPT ![r] = NoSession]
    /\ UNCHANGED <<registry, delivered, failed>>

\* a faulty form of DispatchFailed: the flags are set whatever send returned
DispatchFailedMarksSent(r) ==
    /\ pc[r] = "returned"
    /\ frame[r].ok = "false"
    /\ heap' = [heap EXCEPT ![session[r]].callback_sent = TRUE,
                            ![session[r]].status = "COMPLETED"]
    /\ frame' = [frame EXCEPT ![r] = NoFrame]
    /\ pc' = [pc EXCEPT ![r] = "done"]
    /\ req' = [req EXCEPT ![r] = NoRequest]
    /\ session' = [session EXCEPT ![r] = NoSession]
    /\ failed' = failed \cup {session[r]}
    /\ UNCHANGED <<registry, delivered>>

\* a faulty form of DispatchFailed: a failed send clears the flags
DispatchFailedClears(r) ==
    /\ pc[r] = "returned"
    /\ frame[r].ok = "false"
    /\ heap' = [heap EXCEPT ![session[r]].callback_sent = FALSE,
                            ![session[r]].status = "ACTIVE"]
    /\ frame' = [frame EXCEPT ![r] = NoFrame]
    /\ pc' = [pc EXCEPT ![r] = "done"]
    /\ req' = [req EXCEPT ![r] = NoRequest]
    /\ session' = [session EXCEPT ![r] = NoSession]
    /\ failed' = failed \cup {session[r]}
    /\ UNCHANGED <<registry, delivered>>

\* send returned False: the task ends and changes nothing (main.py line 189)
DispatchFailed(r) ==
    /\ pc[r] = "returned"
    /\ frame[r].ok = "false"
    /\ frame' = [frame EXCEPT ![r] = NoFrame]
    /\ pc' = [pc EXCEPT ![r] = "done"]
    /\ req' = [req EXCEPT ![r] = NoRequest]
    /\ session' = [session EXCEPT ![r] = NoSession]
    /\ failed' = failed \cup {session[r]}
    /\ UNCHANGED <<heap, registry, delivered>>

\* one step of request r's thread
Step(r) ==
    \/ CreateSession(r)
    \/ AppendMessage(r)
    \/ StoreTotal(r)
    \/ RecordScore(r)
    \/ RecordSignals(r)
    \/ MergeRead(r)
    \/ MergeWrite(r)
    \/ Finalize(r)
    \/ StartSend(r)
    \/ Post(r)
    \/ MarkSent(r)
    \/ MarkCompleted(r)
    \/ DispatchFailed(r)

\* The worker threads of the server run the requests concurrently.
Next == \E r \in Requests : Arrive(r) \/ Step(r)

Spec == Init /\ [][Next]_vars

\* no request is being processed
Quiet == \A r \in Requests : pc[r] \in {"idle", "done"}

\* One request at a time: a request arrives when the one before it, and its
\* background task, have ended.
SeqNext ==
    \E r \in Requests :
        \/ Quiet /\ Arrive(r)
        \/ Step(r)

SeqSpec == Init /\ [][SeqNext]_vars

\* One request, whose text is any of the scorer's texts.
ScorerNext ==
    \/ ArriveWith(1, {"s1"}, ScoreTexts, Histories)
    \/ Step(1)

ScorerSpec == Init /\ [][ScorerNext]_vars

\* One request at a time with the extractor's texts.
ExtractorNext ==
    \/ ArriveWith(1, {"s1"}, ExtractTexts, Histories)
    \/ Step(1)

ExtractorSpec == Init /\ [][ExtractorNext]_vars

\* Concurrent requests of one session that all qualify: a scam message with
\* a UPI id, after a history.  Every thread that can take a step eventually
\* takes one.
QualifyingText == "urgent otp pay to scam@upi"

RetryNext ==
    \E r \in Requests :
        \/ ArriveWith(r, {"s1"}, {QualifyingText}, Histories \ {<<>>})
        \/ Step(r)

RetrySpec ==
    /\ Init
    /\ [][RetryNext]_vars
    /\ \A r \in Requests : WF_vars(Step(r))

(***************************************************************************)
(* The properties.                                                         *)
(***************************************************************************)
\* the request r takes a step
Moves(r) == pc'[r] # pc[r] \/ frame'[r] # frame[r]

\* C1: the evaluator answers 2xx to at most one callback POST per sessionId,
\* whatever the interleaving of the messages and the dispatch tasks.
C1_AtMostOnceDelivery ==
    \A sid \in SessionIds : Len(delivered[sid]) <= 1

\* C2: once scam_detected is true of a session it stays true, whatever the
\* scores of the later messages: the step that records a message's verdict
\* sets  scam_detected' = scam_detected \/ score >= 60.
C2_ScamDetectedSticky ==
    [][/\ \A o \in DOMAIN heap : heap[o].scam_detected => heap'[o].scam_detected
       /\ \A sid \in SessionIds :
            (registry[sid] # NoSession /\ heap[registry[sid]].scam_detected) =>
                (registry'[sid] # NoSession /\ heap'[registry'[sid]].scam_detected)
       /\ \A r \in Requests :
            (pc[r] = "signals" /\ pc'[r] = "merge") =>
                heap'[session[r]].scam_detected =
                    (heap[session[r]].scam_detected
                     \/ ScoreMessage(req[r].text).score >= 60)]_vars

\* C2's case: a message that scores below 60 has been recorded in a session
\* whose scam_detected was true, and it still is.
C2_Witness ==
    \E r \in Requests :
        /\ pc[r] = "merge"
        /\ heap[session[r]].risk_score < 60
        /\ heap[session[r]].scam_detected

\* C3: in every step, the values stored in each of the five categories of a
\* session's extracted_intelligence are a superset of those stored before.
C3_IntelligenceMonotone ==
    [][\A o \in DOMAIN heap : \A k \in SeqToSet(IntelKeys) :
           SeqToSet(heap[o].extracted_intelligence[k])
               \subseteq SeqToSet(heap'[o].extracted_intelligence[k])]_vars

\* C3's case: two merges with different bundles (a message with a UPI id,
\* a history with a phone number) have been made into one session.
C3_Witness ==
    \E o \in DOMAIN heap :
        /\ heap[o].extracted_intelligence.upiIds # <<>>
        /\ heap[o].extracted_intelligence.phoneNumbers # <<>>
        /\ Len(heap[o].extracted_intelligence.suspiciousKeywords) >= 3

\* C4: should_finalize(s) is true exactly when callback_sent is false,
\* scam_detected is true, one of upiIds, phishingLinks, phoneNumbers,
\* bankAccounts is not empty and total_messages_exchanged >= 2;
\* suspiciousKeywords does not count.
C4_ShouldFinalizeIff ==
    \A o \in DOMAIN heap :
        ShouldFinalize(heap[o]) <=>
            /\ heap[o].callback_sent = FALSE
            /\ heap[o].scam_detected = TRUE
            /\ \E k \in {"upiIds", "phishingLinks", "phoneNumbers", "bankAccounts"} :
                   Len(heap[o].extracted_intelligence[k]) > 0
            /\ heap[o].total_messages_exchanged >= 2

\* C4's case (scenario C): a session with scam_detected and one UPI id, and
\* nothing from a history, has had its second message appended, and a
\* request's trigger has found should_finalize true.
C4_Witness ==
    \E r \in Requests :
        /\ pc[r] = "task"
        /\ heap[session[r]].total_messages_exchanged = 2
        /\ Len(heap[session[r]].extracted_intelligence.upiIds) = 1
        /\ heap[session[r]].extracted_intelligence.phoneNumbers = <<>>
        /\ ShouldFinalize(heap[session[r]])

\* C5: callback_sent of a session never changes from true to false (so it
\* changes from false to true at most once), under every interleaving.
C5_CallbackSentOnce ==
    [][\A o \in DOMAIN heap : heap[o].callback_sent => heap'[o].callback_sent]_vars

\* C5's case: a second dispatch of a session returns true when callback_sent
\* is already true.
C5_Witness ==
    \E r \in Requests :
        /\ pc[r] = "returned"
        /\ frame[r].ok = "true"
        /\ heap[session[r]].callback_sent

\* C6: a session starts ACTIVE, and in every reachable state its status is
\* COMPLETED exactly when callback_sent is true.
C6_StatusIffCallbackSent ==
    \A o \in DOMAIN heap :
        /\ heap[o].status \in {"ACTIVE", "COMPLETED"}
        /\ (heap[o].status = "COMPLETED") <=> heap[o].callback_sent

\* C7: a send whose attempts all fail makes max_retries + 1 POSTs before it
\* returns false (three with max_retries = 2).
C7_AttemptsAreRetriesPlusOne ==
    \A r \in Requests :
        (pc[r] = "returned" /\ frame[r].ok = "false") =>
            frame[r].posts = MaxRetries + 1

\* C8: a dispatch that fails changes no field of any session; every trigger
\* that finds should_finalize true starts a dispatch, after a failed one
\* too; and a send that returns true is followed by status COMPLETED.
C8_FailedDispatchRetryable ==
    /\ [][\A r \in Requests :
            (/\ Moves(r)
             /\ \/ pc[r] \in {"task", "post"}
                \/ (pc[r] = "returned" /\ frame[r].ok = "false"))
            => heap' = heap]_vars
    /\ [][\A r \in Requests :
            (pc[r] = "finalize" /\ Moves(r)) =>
                (pc'[r] = "task" <=> ShouldFinalize(heap[session[r]]))]_vars
    /\ \A o \in Requests :
         (\E r \in Requests :
              pc[r] = "returned" /\ frame[r].ok = "true" /\ session[r] = o)
         ~> (o \in DOMAIN heap /\ heap[o].status = "COMPLETED")

\* C8's case: a message that arrived after a dispatch of its session had
\* failed has triggered a new dispatch, which was answered 2xx.
C8_Witness ==
    \E r \in Requests :
        /\ pc[r] = "completing"
        /\ frame[r].after_failure
        /\ session[r] \in failed

\* C9: every attempt of send ends in the next attempt or in a boolean
\* return value, never in an exception; send returns true exactly at the
\* attempt that is answered 2xx, and makes no POST after it has returned.
C9_SendReturnsBoolean ==
    [][\A r \in Requests :
         /\ pc'[r] # "raised"
         /\ (pc[r] = "post" /\ Moves(r)) =>
                /\ frame'[r].posts = frame[r].posts + 1
                /\ pc'[r] \in {"post", "returned"}
                /\ pc'[r] = "returned" => frame'[r].ok \in {"true", "false"}
                /\ (delivered' # delivered)
                       <=> (pc'[r] = "returned" /\ frame'[r].ok = "true")
         /\ pc[r] = "returned" => frame'[r].posts \in {frame[r].posts, 0}]_vars

\* C9's case: a send whose first attempt failed has returned true at its
\* second attempt.
C9_Witness ==
    \E r \in Requests :
        /\ pc[r] = "returned"
        /\ frame[r].ok = "true"
        /\ frame[r].posts = 2

\* the points of the signals that a text triggers, each counted once
TriggeredPoints(text) ==
    LET t == Lower(text)
        Triggered(i) ==
            \E k \in DOMAIN KEYWORD_SIGNALS[i].phrases :
                Contains(t, KEYWORD_SIGNALS[i].phrases[k])
        Sum[i \in 0..Len(KEYWORD_SIGNALS)] ==
            IF i = 0 THEN 0
            ELSE Sum[i - 1] + (IF Triggered(i) THEN KEYWORD_SIGNALS[i].points ELSE 0)
    IN Sum[Len(KEYWORD_SIGNALS)]
       + (IF \E i \in 1..Len(t) : UrlMatchLen(t, i) > 0 THEN 25 ELSE 0)
       + (IF \E i \in 1..Len(t) : PhoneMatchLen(t, i) > 0 THEN 10 ELSE 0)

\* C10: risk_score is in 0..100 in every session; the score recorded for a
\* text is the sum of the points of the signals it triggers (at most 175)
\* clamped to 100, and the empty text gives 0 and no signal.
C10_RiskScoreBounded ==
    /\ \A o \in DOMAIN heap : heap[o].risk_score \in 0..100
    /\ \A r \in Requests :
         pc[r] = "merge" =>
            /\ TriggeredPoints(req[r].text) <= 175
            /\ heap[session[r]].risk_score = Min(100, TriggeredPoints(req[r].text))
            /\ req[r].text = "" =>
                   /\ heap[session[r]].risk_score = 0
                   /\ heap[session[r]].matched_signals = <<>>

\* C10's case: the text that triggers all nine signals (175 points) has been
\* scored, and the score recorded is 100.
C10_Witness ==
    \E r \in Requests :
        /\ pc[r] = "merge"
        /\ Len(heap[session[r]].matched_signals) = 9
        /\ heap[session[r]].risk_score = 100

\* a sequence without a repeated element
NoDuplicates(s) == \A i, j \in DOMAIN s : s[i] = s[j] => i = j

\* s is an initial part of t
IsPrefix(s, t) == Len(s) <= Len(t) /\ SubSeq(t, 1, Len(s)) = s

\* the bundle of a text that names one UPI id twice
RepeatedBundle == ExtractIntelligence("pay scam@upi or scam@upi now")

\* the bundles merged into the sessions below
MergedBundles == {Extracted[t] : t \in HandlerTexts} \cup {RepeatedBundle}

\* C11: no category of a session's extracted_intelligence ever holds the
\* same string twice, and merging a bundle b into the session's bundle S is
\* an order-preserving union: S is an initial part of merge(S, b), the
\* values of merge(S, b) are those of S and of b, and merging b a second
\* time changes nothing.
C11_MergeIsIdempotentUnion ==
    \A o \in DOMAIN heap :
        LET S == heap[o].extracted_intelligence
        IN /\ \A k \in SeqToSet(IntelKeys) : NoDuplicates(S[k])
           /\ \A b \in MergedBundles :
                LET M == MergeIntelligence(S, b)
                IN /\ MergeIntelligence(M, b) = M
                   /\ \A k \in SeqToSet(IntelKeys) :
                        /\ IsPrefix(S[k], M[k])
                        /\ SeqToSet(M[k]) = SeqToSet(S[k]) \cup SeqToSet(b[k])

\* C12: no value of bankAccounts returned by one extract call has the
\* digits of a phone match of the same call, or 10 digits, or 12 digits
\* starting with 91; a text with 9876543210 gives +919876543210 in
\* phoneNumbers and not 9876543210 in bankAccounts.
C12_PhoneBankExclusion ==
    \A r \in Requests :
        pc[r] = "merge_write" =>
            LET t == req[r].text
                e == Extract(t)
                matches == FindAll("PHONE_RE", t, 1)
                raw == {DigitsOnly(matches[i]) : i \in DOMAIN matches}
            IN /\ \A a \in SeqToSet(e.bankAccounts) :
                    /\ DigitsOnly(a) \notin raw
                    /\ Len(DigitsOnly(a)) # 10
                    /\ ~(Len(DigitsOnly(a)) = 12 /\ SubSeq(DigitsOnly(a), 1, 2) = "91")
                    /\ \A p \in SeqToSet(e.phoneNumbers) : DigitsOnly(a) # DigitsOnly(p)
               /\ Contains(t, "9876543210") =>
                    /\ "+919876543210" \in SeqToSet(e.phoneNumbers)
                    /\ "9876543210" \notin SeqToSet(e.bankAccounts)

\* C12's case: a text with the phone number written +91 9876543210 and a
\* 12-digit account number has been extracted: the phone number is found,
\* the account number is kept, the ten digits are not an account.
C12_Witness ==
    \E r \in Requests :
        /\ pc[r] = "merge_write"
        /\ Contains(req[r].text, "+91 9876543210")
        /\ frame[r].to_add.phoneNumbers = <<"+919876543210">>
        /\ frame[r].to_add.bankAccounts = <<"123456789012">>

\* the number of history messages in a conversation (the texts of the
\* inbound messages differ from the text of a history message)
HistoryCount(conversation) ==
    Cardinality({i \in DOMAIN conversation : conversation[i] = HistoryMessage})

\* C13: the conversationHistory is appended to a session once, by the first
\* request, before every new message: the conversation holds the messages
\* of at most one history, none of them after an inbound message, also
\* when first requests are processed concurrently.
C13_HistoryIngestedOnce ==
    \A o \in DOMAIN heap :
        LET conv == heap[o].conversation
        IN /\ HistoryCount(conv) <= MaxHistory
           /\ \A i, j \in DOMAIN conv :
                (i < j /\ conv[j] = HistoryMessage) => conv[i] = HistoryMessage

\* C14: get_or_create gives every caller with the same sessionId the same
\* session object, and the registry keeps it: one object is ever made per
\* sessionId, and a request's session is the one registered under its id.
C14_GetOrCreateSafe ==
    /\ \A o1, o2 \in DOMAIN heap :
         heap[o1].session_id = heap[o2].session_id => o1 = o2
    /\ \A r \in Requests :
         session[r] # NoSession => registry[req[r].sessionId] = session[r]

\* C15: once callback_sent is true of a session, no POST attempt is made
\* for it: not by a later message's dispatch, not by a dispatch scheduled
\* before the flag was set.
C15_NoPostAfterCallbackSent ==
    [][\A r \in Requests :
         (pc[r] = "post" /\ Moves(r)) => ~heap[session[r]].callback_sent]_vars

\* C16: a dispatch is never scheduled by the inbound message that first
\* sets scam_detected: when a request's trigger schedules one, an earlier
\* inbound message of the session (not a history message, not the
\* request's own, which is the last) had already been scored a scam.
C16_EngagementGate ==
    \A r \in Requests :
        pc[r] = "task" =>
            LET conv == heap[session[r]].conversation
            IN \E i \in DOMAIN conv :
                 /\ i < Len(conv)
                 /\ conv[i] # HistoryMessage
                 /\ Detect(conv[i].text).scam_now

\* C17: extract returns the five categories, and no string twice in any
\* of them, also for a text that repeats an artifact or writes one phone
\* number in two forms.
C17_ExtractDeduplicates ==
    \A r \in Requests :
        pc[r] = "merge_write" =>
            LET e == Extract(req[r].text)
            IN /\ DOMAIN e = SeqToSet(IntelKeys)
               /\ \A k \in SeqToSet(IntelKeys) : NoDuplicates(e[k])

\* C18: in every step, the conversation stored in the registry under a
\* sessionId before the step is an initial part of the one stored under it
\* after the step.
C18_ConversationAppendOnly ==
    [][\A sid \in SessionIds :
         registry[sid] # NoSession =>
            /\ registry'[sid] # NoSession
            /\ IsPrefix(heap[registry[sid]].conversation,
                        heap'[registry'[sid]].conversation)]_vars

\* C19: risk_score and matched_signals are those of the latest message
\* only: once the requests of a session have been processed, the two fields
\* are the score and the signal list of one and the same inbound message
\* of its conversation.
C19_ScoreIsLatestTurn ==
    \A o \in DOMAIN heap :
        (heap[o].conversation # <<>> /\ \A r \in Requests : session[r] # o) =>
            \E i \in DOMAIN heap[o].conversation :
                LET m == heap[o].conversation[i]
                IN /\ m # HistoryMessage
                   /\ heap[o].risk_score = Detect(m.text).score
                   /\ heap[o].matched_signals = Detect(m.text).matched

\* C20: total_messages_exchanged of a session is the number of messages of
\* its conversation, whenever no request is between the append and the
\* increment of append_message_dict on it, also when the requests of a
\* session are processed concurrently.
C20_TotalIsConversationLength ==
    \A o \in DOMAIN heap :
        (\A r \in Requests :
            session[r] = o => pc[r] \notin {"ingest_inc", "append_inc"}) =>
            heap[o].total_messages_exchanged = Len(heap[o].conversation)

\* C21: the totalMessagesExchanged and the extractedIntelligence of the body of
\* a callback POST are the session's values of the moment the trigger was
\* evaluated for the triggering message (the moment agentNotes was built),
\* whatever messages of the session are processed before the POST or between
\* two attempts.  A request at "post" makes its POST with Body(r).
C21_DossierIsSnapshot ==
    \A r \in Requests :
        pc[r] = "post" =>
            /\ Body(r).totalMessagesExchanged = frame[r].total_at_trigger
            /\ Body(r).extractedIntelligence = frame[r].intel_at_trigger

\* C22: a step of a request for one sessionId (of its handler or of its
\* dispatch) leaves every session object of another sessionId as it was, field
\* by field, and leaves the registry's entry of every other sessionId alone;
\* the arrival of a request changes no session.
C22_SessionIsolation ==
    [][\A r \in Requests :
          Moves(r) =>
              /\ \A o \in DOMAIN heap :
                     heap[o].session_id # req[r].sessionId =>
                         /\ o \in DOMAIN heap'
                         /\ heap'[o] = heap[o]
              /\ \A sid \in SessionIds :
                     sid # req[r].sessionId => registry'[sid] = registry[sid]]_vars

\* Two sessions exist; the request for "s2" has merged a UPI id into its
\* session and scheduled its dispatch, while the session "s1", which has a
\* message, has no UPI id and is still fresh in its flags.
C22_Witness ==
    \E o1, o2 \in DOMAIN heap :
        /\ heap[o1].session_id = "s1"
        /\ heap[o2].session_id = "s2"
        /\ registry["s1"] = o1
        /\ registry["s2"] = o2
        /\ heap[o1].conversation # <<>>
        /\ heap[o1].extracted_intelligence.upiIds = <<>>
        /\ ~heap[o1].scam_detected
        /\ heap[o2].extracted_intelligence.upiIds = <<"scam@upi">>
        /\ heap[o2].scam_detected
        /\ \E r \in Requests : session[r] = o2 /\ pc[r] = "task"

====
